---- MODULE Spec2Model ----
(***************************************************************************)
(* State-machine model of src/app.py: the James Hardie technical expert    *)
(* service.  The model covers the knowledge-base resolver                  *)
(* (get_quick_answer), the provider chain (generate_response) with its two *)
(* process-wide counters, and the two routes that call them (api_query and *)
(* test_endpoints).                                                        *)
(*                                                                         *)
(* Python strings that the code inspects (the query) are sequences of      *)
(* one-character strings, so that lower(), strip() and the `in` substring  *)
(* test are computed.  Strings the code only builds (the answers) are TLA+ *)
(* strings built with \o as the code builds them with join.                *)
(* Wall-clock values (response_time) and token counts are not modelled.    *)
(***************************************************************************)
EXTENDS Integers, Sequences, FiniteSets, TLC

(***************************************************************************)
(* Bounds of the model.                                                    *)
(***************************************************************************)
\* HTTP requests accepted over one run of the process, served one at a time.
MaxRequests == 4
\* HTTP requests accepted over one run of the process, served concurrently.
MaxConcRequests == 2
\* Worker threads of the host that serve requests concurrently (SpecConc).
NumThreads == 2
\* Fragments concatenated into one query in the resolver specification.
MaxPieces == 4

(***************************************************************************)
(* Strings as character sequences.                                         *)
(***************************************************************************)
UpperLetters ==
    <<"A", "B", "C", "D", "E", "F", "G", "H", "I", "J", "K", "L", "M", "N", "O", "P", "Q", "R", "S", "T", "U", "V", "W", "X", "Y", "Z">>
LowerLetters ==
    <<"a", "b", "c", "d", "e", "f", "g", "h", "i", "j", "k", "l", "m", "n", "o", "p", "q", "r", "s", "t", "u", "v", "w", "x", "y", "z">>

\* str.lower() on one character (ASCII letters).
LowerChar(c) ==
    IF \E i \in 1..Len(UpperLetters) : UpperLetters[i] = c
    THEN LowerLetters[CHOOSE i \in 1..Len(UpperLetters) : UpperLetters[i] = c]
    ELSE c

\* str.lower()
Lower(s) ==
    [i \in 1..Len(s) |-> LowerChar(s[i])]

\* Characters str.strip() removes.
Whitespace ==
    {" ", "\t", "\n", "\r", "\f"}

\* Faulty variant of Strip: the query is used untrimmed.
StripNothing(s) ==
    s

\* str.strip(): drop leading and trailing whitespace.
Strip(s) ==
    LET keep == {i \in 1..Len(s) : s[i] \notin Whitespace}
        first == CHOOSE i \in keep : \A j \in keep : i <= j
        last == CHOOSE i \in keep : \A j \in keep : j <= i
    IN  IF keep = {} THEN <<>> ELSE SubSeq(s, first, last)

\* Python's `word in text` on strings: word occurs as a contiguous substring.
Contains(text, word) ==
    \E i \in 1..(Len(text) - Len(word) + 1) :
        SubSeq(text, i, i + Len(word) - 1) = word

\* str.join
RECURSIVE Join(_, _)
Join(sep, parts) ==
    IF Len(parts) = 0 THEN ""
    ELSE IF Len(parts) = 1 THEN parts[1]
    ELSE parts[1] \o sep \o Join(sep, Tail(parts))

(***************************************************************************)
(* The knowledge base, JAMES_HARDIE_KNOWLEDGE (entries the code reads).    *)
(***************************************************************************)
hardieplank_description ==
    "HardiePlank® lap siding is a fiber cement siding that combines the look of wood with superior durability and performance."

hardieplank_installation ==
    << "Start with proper wall preparation and moisture barrier",
       "Install starter strip at bottom of wall",
       "Cut siding with appropriate tools (circular saw with carbide blade)",
       "Maintain 1/4\" gap at all joints and penetrations",
       "Use corrosion-resistant fasteners (stainless steel or galvanized)",
       "Pre-drill holes for nails to prevent cracking" >>

hardieplank_tools ==
    << "Circular saw with carbide blade", "Drill", "Level", "Chalk line",
       "Safety equipment" >>

hardietrim_description ==
    "HardieTrim® boards provide clean lines and architectural detail with the durability of fiber cement."

installation_general ==
    << "Always follow local building codes",
       "Maintain proper clearances (6\" from grade, 2\" from rooflines)",
       "Use proper flashing and weather barriers",
       "Prime and paint all cut edges within 60 days",
       "Store materials flat and off the ground" >>

\* The bullet of the general guidelines, U+2022 in the source, written in ASCII.
BULLET ==
    "*"

\* The keywords get_quick_answer looks for.
KW_hardieplank ==
    <<"h", "a", "r", "d", "i", "e", "p", "l", "a", "n", "k">>
KW_hardietrim ==
    <<"h", "a", "r", "d", "i", "e", "t", "r", "i", "m">>
KW_install ==
    <<"i", "n", "s", "t", "a", "l", "l">>
KW_installation ==
    <<"i", "n", "s", "t", "a", "l", "l", "a", "t", "i", "o", "n">>
KW_tool ==
    <<"t", "o", "o", "l">>

(***************************************************************************)
(* get_quick_answer.  Optional[str] is <<>> for None and <<s>> for s.      *)
(***************************************************************************)
\* any(word in query_lower for word in ['install', 'installation'])
AnyInstallWord(query_lower) ==
    \E word \in {KW_install, KW_installation} : Contains(query_lower, word)

\* Faulty variant of get_quick_answer: the install branch is tested before the
\* hardietrim branch.
get_quick_answer_install_first(query) ==
    LET query_lower == Lower(query)
    IN  IF Contains(query_lower, KW_hardieplank)
        THEN IF Contains(query_lower, KW_install)
             THEN << "HardiePlank installation key steps:\n"
                     \o Join("\n", [i \in 1..Len(hardieplank_installation) |->
                              ToString(i) \o ". " \o hardieplank_installation[i]]) >>
             ELSE IF Contains(query_lower, KW_tool)
             THEN << "Tools needed for HardiePlank installation: "
                     \o Join(", ", hardieplank_tools) >>
             ELSE << hardieplank_description >>
        ELSE IF AnyInstallWord(query_lower)
        THEN << "General James Hardie installation guidelines:\n"
                \o Join("\n", [i \in 1..Len(installation_general) |->
                         BULLET \o " " \o installation_general[i]]) >>
        ELSE IF Contains(query_lower, KW_hardietrim)
        THEN << hardietrim_description >>
        ELSE <<>>

get_quick_answer(query) ==
    LET query_lower == Lower(query)
    IN  IF Contains(query_lower, KW_hardieplank)
        THEN IF Contains(query_lower, KW_install)
             THEN << "HardiePlank installation key steps:\n"
                     \o Join("\n", [i \in 1..Len(hardieplank_installation) |->
                              ToString(i) \o ". " \o hardieplank_installation[i]]) >>
             ELSE IF Contains(query_lower, KW_tool)
             THEN << "Tools needed for HardiePlank installation: "
                     \o Join(", ", hardieplank_tools) >>
             ELSE << hardieplank_description >>
        ELSE IF Contains(query_lower, KW_hardietrim)
        THEN << hardietrim_description >>
        ELSE IF AnyInstallWord(query_lower)
        THEN << "General James Hardie installation guidelines:\n"
                \o Join("\n", [i \in 1..Len(installation_general) |->
                         BULLET \o " " \o installation_general[i]]) >>
        ELSE <<>>

\* Python truthiness of an Optional[str]: neither None nor the empty string.
Truthy(opt) ==
    opt # <<>> /\ opt[1] # ""

(***************************************************************************)
(* Requests.  A JSON body is None (no JSON) or an object, a function from  *)
(* its keys to values; a value is a string or null.                        *)
(***************************************************************************)
StrVal(s) ==
    [type |-> "str", chars |-> s]

NullVal ==
    [type |-> "null", chars |-> <<>>]

NoBody ==
    [is_none |-> TRUE, obj |-> <<>>]

JsonObject(o) ==
    [is_none |-> FALSE, obj |-> o]

\* Queries sent to /api/query.
Q_InstallPlank ==
    <<"H", "o", "w", " ", "d", "o", " ", "I", " ", "i", "n", "s", "t", "a", "l", "l", " ", "H", "a", "r", "d", "i", "e", "P", "l", "a", "n", "k", " ", "s", "i", "d", "i", "n", "g", "?">>
Q_WhatIsTrim ==
    <<" ", " ", "W", "h", "a", "t", " ", "i", "s", " ", "H", "a", "r", "d", "i", "e", "T", "r", "i", "m", "?", "\n">>
Q_Warranty ==
    <<"T", "e", "l", "l", " ", "m", "e", " ", "a", "b", "o", "u", "t", " ", "w", "a", "r", "r", "a", "n", "t", "y", " ", "t", "e", "r", "m", "s">>
Q_PlankTools ==
    <<"H", "A", "R", "D", "I", "E", "P", "L", "A", "N", "K", " ", "t", "o", "o", "l", "s">>
Q_Empty ==
    <<>>
Q_Blank ==
    <<" ", "\t", "\n">>

SampleQueries ==
    {Q_InstallPlank, Q_WhatIsTrim, Q_Warranty, Q_PlankTools, Q_Empty, Q_Blank}

\* Bodies a client may post to /api/query.
Bodies ==
    {NoBody, JsonObject(<<>>), JsonObject("text" :> StrVal(Q_Warranty)),
     JsonObject("query" :> NullVal)}
    \cup {JsonObject("query" :> StrVal(q)) : q \in SampleQueries}

\* test_queries of test_endpoints.
TQ_1 ==
    <<"W", "h", "a", "t", " ", "i", "s", " ", "H", "a", "r", "d", "i", "e", "P", "l", "a", "n", "k", " ", "s", "i", "d", "i", "n", "g", "?">>
TQ_2 ==
    <<"H", "o", "w", " ", "d", "o", " ", "I", " ", "i", "n", "s", "t", "a", "l", "l", " ", "H", "a", "r", "d", "i", "e", "P", "l", "a", "n", "k", "?">>
TQ_3 ==
    <<"W", "h", "a", "t", " ", "t", "o", "o", "l", "s", " ", "d", "o", " ", "I", " ", "n", "e", "e", "d", " ", "f", "o", "r", " ", "i", "n", "s", "t", "a", "l", "l", "a", "t", "i", "o", "n", "?">>
TQ_4 ==
    <<"W", "h", "a", "t", " ", "a", "r", "e", " ", "t", "h", "e", " ", "f", "a", "s", "t", "e", "n", "e", "r", " ", "r", "e", "q", "u", "i", "r", "e", "m", "e", "n", "t", "s", "?">>

test_queries ==
    <<TQ_1, TQ_2, TQ_3, TQ_4>>

Routes ==
    {"/api/query", "/api/test"}

(***************************************************************************)
(* Results.  A dict is a record with every key the code may set; a key the *)
(* code leaves out holds Absent.                                           *)
(***************************************************************************)
Absent ==
    "<absent>"

\* What the remote completion returned; its text is opaque to the service.
RemoteContent ==
    "<completion>"

NoResult ==
    [content |-> Absent, provider |-> Absent, model |-> Absent,
     usage |-> Absent, error |-> Absent, cached |-> Absent]

\* The dict returned after a successful provider call.
SuccessResult(provider) ==
    [content |-> RemoteContent, provider |-> provider, model |-> "<response.model>",
     usage |-> "<response.usage>", error |-> Absent, cached |-> Absent]

\* The dict returned when no provider answered.
UnavailableResult ==
    [content |-> "I'm temporarily unable to process your request. Please try again later.",
     provider |-> "none", model |-> Absent, usage |-> Absent,
     error |-> "No AI service available", cached |-> Absent]

\* The dict api_query returns for a knowledge-base answer.
QuickBody(quick_answer) ==
    [content |-> quick_answer, provider |-> "knowledge_base", model |-> Absent,
     usage |-> Absent, error |-> Absent, cached |-> TRUE]

ErrorBody(message) ==
    [content |-> Absent, provider |-> Absent, model |-> Absent,
     usage |-> Absent, error |-> message, cached |-> Absent]

NoResponse ==
    [status |-> 0, body |-> NoResult]

(***************************************************************************)
(* Exceptions.  A provider call ends "ok" or raises: the client raises on  *)
(* a network or authentication failure, and reading a malformed response   *)
(* (no choices, no usage) raises IndexError or AttributeError.             *)
(***************************************************************************)
NoException ==
    "<no exception>"

ProviderErrors ==
    {"APIConnectionError", "IndexError"}

Outcomes ==
    {"ok"} \cup ProviderErrors

\* Classes derived from Exception among those the model raises.
ExceptionSubclasses ==
    ProviderErrors \cup {"AttributeError"}

\* Faulty variant of Caught: only the client's own errors are caught.
CaughtApiErrorsOnly(e) ==
    e = "APIConnectionError"

\* `except Exception as e`
Caught(e) ==
    e \in ExceptionSubclasses

(***************************************************************************)
(* State.                                                                  *)
(***************************************************************************)
VARIABLES
    azure_client,    \* TRUE when initialize_ai_clients built the Azure client
    openai_client,   \* TRUE when it built the standard OpenAI client
    request_count,   \* global counter
    error_count,     \* global counter
    pc,              \* per worker: where its handler stands
    route,           \* per worker: the route of the request it serves
    data,            \* per worker: request.get_json()
    messages,        \* per worker: the user content handed to generate_response
    caller,          \* per worker: the route handler that called generate_response
    reg,             \* per worker: the counter value read by a `+= 1` in progress
    attempts,        \* per worker: provider calls of the current invocation, in order
    response,        \* per worker: what generate_response returned
    raised,          \* per worker: the exception generate_response let escape
    i,               \* per worker: index into test_queries
    results,         \* per worker: results of test_endpoints
    http,            \* per worker: the HTTP response of the handler
    remaining,       \* requests the host still accepts (the bound of a run)
    invoked,         \* history: generate_response invocations started
    returned,        \* history: generate_response invocations ended
    both_failed,     \* history: ended invocations in which two providers failed
    err_incs,        \* history: executions of `error_count += 1`
    at_receive,      \* history, per worker: the counters when the request arrived
    at_entry,        \* history, per worker: the counters at generate_response entry
    calls,           \* history, per worker: generate_response calls of the request
    rquery,          \* resolver specification: the query
    ranswer,         \* resolver specification: get_quick_answer(rquery)
    rdone            \* resolver specification: the answer was computed

globals == <<azure_client, openai_client, request_count, error_count>>
locals == <<pc, route, data, messages, caller, reg, attempts, response, raised,
            i, results, http>>
\* The run's bound and the history variables: no handler reads them.
history == <<remaining, invoked, returned, both_failed, err_incs, at_receive,
             at_entry, calls>>
resolver == <<rquery, ranswer, rdone>>
vars == <<globals, locals, history, resolver>>

Workers ==
    1..NumThreads

\* The worker of a host that serves one request at a time.
SingleWorker ==
    {1}

Counters ==
    [rc |-> request_count, ec |-> error_count]

\* initialize_ai_clients: each client exists or not, by the environment.
InitService ==
    /\ azure_client \in BOOLEAN
    /\ openai_client \in BOOLEAN
    /\ request_count = 0
    /\ error_count = 0
    /\ pc = [t \in Workers |-> "idle"]
    /\ route = [t \in Workers |-> Absent]
    /\ data = [t \in Workers |-> NoBody]
    /\ messages = [t \in Workers |-> <<>>]
    /\ caller = [t \in Workers |-> Absent]
    /\ reg = [t \in Workers |-> 0]
    /\ attempts = [t \in Workers |-> <<>>]
    /\ response = [t \in Workers |-> NoResult]
    /\ raised = [t \in Workers |-> NoException]
    /\ i = [t \in Workers |-> 0]
    /\ results = [t \in Workers |-> <<>>]
    /\ http = [t \in Workers |-> NoResponse]
    /\ invoked = 0
    /\ returned = 0
    /\ both_failed = 0
    /\ err_incs = 0
    /\ at_receive = [t \in Workers |-> [rc |-> 0, ec |-> 0]]
    /\ at_entry = [t \in Workers |-> [rc |-> 0, ec |-> 0]]
    /\ calls = [t \in Workers |-> 0]

Init ==
    /\ InitService
    /\ remaining = MaxRequests
    /\ rquery = <<>>
    /\ ranswer = <<>>
    /\ rdone = FALSE

(***************************************************************************)
(* The host hands a request to an idle worker.                             *)
(***************************************************************************)
Receive(t) ==
    /\ pc[t] = "idle"
    /\ remaining > 0
    /\ \E r \in Routes :
          /\ route' = [route EXCEPT ![t] = r]
          /\ pc' = [pc EXCEPT ![t] = IF r = "/api/query" THEN "api_query" ELSE "test_endpoints"]
          /\ IF r = "/api/query"
             THEN \E d \in Bodies : data' = [data EXCEPT ![t] = d]
             ELSE data' = [data EXCEPT ![t] = NoBody]
    /\ messages' = [messages EXCEPT ![t] = <<>>]
    /\ caller' = [caller EXCEPT ![t] = Absent]
    /\ attempts' = [attempts EXCEPT ![t] = <<>>]
    /\ response' = [response EXCEPT ![t] = NoResult]
    /\ raised' = [raised EXCEPT ![t] = NoException]
    /\ i' = [i EXCEPT ![t] = 1]
    /\ results' = [results EXCEPT ![t] = <<>>]
    /\ http' = [http EXCEPT ![t] = NoResponse]
    /\ remaining' = remaining - 1
    /\ at_receive' = [at_receive EXCEPT ![t] = Counters]
    /\ calls' = [calls EXCEPT ![t] = 0]
    /\ UNCHANGED <<globals, reg, invoked, returned, both_failed, err_incs,
                   at_entry, resolver>>

\* The handler returns its response.
Respond(t, status, body) ==
    /\ http' = [http EXCEPT ![t] = [status |-> status, body |-> body]]
    /\ pc' = [pc EXCEPT ![t] = "done"]

\* The handler calls generate_response(messages).
CallChain(t, from, content) ==
    /\ pc' = [pc EXCEPT ![t] = "gr_104_load"]
    /\ caller' = [caller EXCEPT ![t] = from]
    /\ messages' = [messages EXCEPT ![t] = content]
    /\ attempts' = [attempts EXCEPT ![t] = <<>>]
    /\ response' = [response EXCEPT ![t] = NoResult]
    /\ raised' = [raised EXCEPT ![t] = NoException]
    /\ invoked' = invoked + 1
    /\ calls' = [calls EXCEPT ![t] = calls[t] + 1]
    /\ at_entry' = [at_entry EXCEPT ![t] = Counters]

(***************************************************************************)
(* api_query, up to its call of generate_response.                         *)
(***************************************************************************)
\* `not data`
Falsy(d) ==
    d.is_none \/ DOMAIN d.obj = {}

\* Faulty variant of ApiQueryDecision: the knowledge-base answer is not
\* returned, and every valid query goes on to generate_response.
ApiQueryDecisionNoEarlyReturn(d) ==
    IF Falsy(d) \/ "query" \notin DOMAIN d.obj
    THEN [do |-> "respond", status |-> 400, body |-> ErrorBody("No query provided")]
    ELSE IF d.obj["query"].type # "str"
    THEN [do |-> "respond", status |-> 500,
          body |-> ErrorBody("AttributeError")]
    ELSE LET user_query == Strip(d.obj["query"].chars)
         IN  IF user_query = <<>>
             THEN [do |-> "respond", status |-> 400, body |-> ErrorBody("Empty query")]
             ELSE [do |-> "call", content |-> user_query]

\* What api_query does with the body: answer at once, or call the chain.
ApiQueryDecision(d) ==
    IF Falsy(d) \/ "query" \notin DOMAIN d.obj
    THEN [do |-> "respond", status |-> 400, body |-> ErrorBody("No query provided")]
    ELSE IF d.obj["query"].type # "str"
    \* data['query'].strip() raises AttributeError, caught at line 397
    THEN [do |-> "respond", status |-> 500,
          body |-> ErrorBody("AttributeError")]
    ELSE LET user_query == Strip(d.obj["query"].chars)
             quick_answer == get_quick_answer(user_query)
         IN  IF user_query = <<>>
             THEN [do |-> "respond", status |-> 400, body |-> ErrorBody("Empty query")]
             ELSE IF Truthy(quick_answer)
             THEN [do |-> "respond", status |-> 200, body |-> QuickBody(quick_answer[1])]
             ELSE [do |-> "call", content |-> user_query]

ApiQuery(t) ==
    /\ pc[t] = "api_query"
    /\ LET decision == ApiQueryDecision(data[t])
       IN  IF decision.do = "respond"
           THEN /\ Respond(t, decision.status, decision.body)
                /\ UNCHANGED <<messages, caller, attempts, response, raised,
                               invoked, calls, at_entry>>
           ELSE /\ CallChain(t, "api_query", decision.content)
                /\ UNCHANGED http
    /\ UNCHANGED <<globals, route, data, reg, i, results, remaining, returned,
                   both_failed, err_incs, at_receive, resolver>>

\* api_query after generate_response: jsonify(response), or the handler of line 397.
ApiQueryReturn(t) ==
    /\ pc[t] = "api_query_395"
    /\ IF raised[t] = NoException
       THEN Respond(t, 200, response[t])
       ELSE Respond(t, 500, ErrorBody(raised[t]))
    /\ UNCHANGED <<globals, route, data, messages, caller, reg, attempts, response,
                   raised, i, results, history, resolver>>

(***************************************************************************)
(* generate_response.  `request_count += 1` and `error_count += 1` on a    *)
(* global are a read of the global followed by a write of the sum: two     *)
(* steps, between which another worker may run.                            *)
(***************************************************************************)
Failed(log) ==
    {k \in 1..Len(log) : log[k].outcome # "ok"}

\* generate_response ends: with a dict, or with an exception it did not catch.
GrReturn(t, result, exc, log) ==
    /\ response' = [response EXCEPT ![t] = result]
    /\ raised' = [raised EXCEPT ![t] = exc]
    /\ pc' = [pc EXCEPT ![t] = IF caller[t] = "api_query" THEN "api_query_395"
                                ELSE "test_endpoints_428"]
    /\ returned' = returned + 1
    /\ both_failed' = both_failed + (IF Cardinality(Failed(log)) = 2 THEN 1 ELSE 0)

\* line 104, the read
GrRequestCountLoad(t) ==
    /\ pc[t] = "gr_104_load"
    /\ reg' = [reg EXCEPT ![t] = request_count]
    /\ pc' = [pc EXCEPT ![t] = "gr_104_store"]
    /\ UNCHANGED <<globals, route, data, messages, caller, attempts, response,
                   raised, i, results, http, history, resolver>>

\* Faulty variant of GrRequestCountStore: the request is not counted.
GrRequestCountStoreUncounted(t) ==
    /\ pc[t] = "gr_104_store"
    /\ pc' = [pc EXCEPT ![t] = "gr_108"]
    /\ reg' = [reg EXCEPT ![t] = 0]
    /\ UNCHANGED <<globals, route, data, messages, caller, attempts, response,
                   raised, i, results, http, history, resolver>>

\* line 104, the write
GrRequestCountStore(t) ==
    /\ pc[t] = "gr_104_store"
    /\ request_count' = reg[t] + 1
    /\ pc' = [pc EXCEPT ![t] = "gr_108"]
    /\ reg' = [reg EXCEPT ![t] = 0]
    /\ UNCHANGED <<azure_client, openai_client, error_count, route, data, messages,
                   caller, attempts, response, raised, i, results, http,
                   history, resolver>>

\* Faulty variant of AzureNext: the return after a success is missing.
AzureNextFallsThrough(outcome) ==
    IF outcome = "ok" THEN "gr_133"
    ELSE IF Caught(outcome) THEN "gr_130_load"
    ELSE "raise"

\* Where the Azure block goes after the call: "return", "raise" or the next line.
AzureNext(outcome) ==
    IF outcome = "ok" THEN "return"
    ELSE IF Caught(outcome) THEN "gr_130_load"
    ELSE "raise"

\* lines 108-129: the Azure OpenAI attempt
GrAzure(t) ==
    /\ pc[t] = "gr_108"
    /\ IF azure_client
       THEN \E outcome \in Outcomes :
              LET log == Append(attempts[t],
                                [provider |-> "azure_openai", outcome |-> outcome])
                  next == AzureNext(outcome)
              IN  /\ attempts' = [attempts EXCEPT ![t] = log]
                  /\ IF next = "return"
                     THEN GrReturn(t, SuccessResult("azure_openai"), NoException, log)
                     ELSE IF next = "raise"
                     THEN GrReturn(t, NoResult, outcome, log)
                     ELSE /\ pc' = [pc EXCEPT ![t] = next]
                          /\ UNCHANGED <<response, raised, returned, both_failed>>
       ELSE /\ pc' = [pc EXCEPT ![t] = "gr_133"]
            /\ UNCHANGED <<attempts, response, raised, returned, both_failed>>
    /\ UNCHANGED <<globals, route, data, messages, caller, reg, i, results, http,
                   remaining, invoked, err_incs, at_receive, at_entry, calls, resolver>>

\* line 130, the read
GrAzureErrorLoad(t) ==
    /\ pc[t] = "gr_130_load"
    /\ reg' = [reg EXCEPT ![t] = error_count]
    /\ pc' = [pc EXCEPT ![t] = "gr_130_store"]
    /\ UNCHANGED <<globals, route, data, messages, caller, attempts, response,
                   raised, i, results, http, history, resolver>>

\* Faulty variant of GrAzureErrorStore: the failure is not counted.
GrAzureErrorStoreUncounted(t) ==
    /\ pc[t] = "gr_130_store"
    /\ reg' = [reg EXCEPT ![t] = 0]
    /\ pc' = [pc EXCEPT ![t] = "gr_133"]
    /\ UNCHANGED <<globals, route, data, messages, caller, attempts, response,
                   raised, i, results, http, history, resolver>>

\* line 130, the write
GrAzureErrorStore(t) ==
    /\ pc[t] = "gr_130_store"
    /\ error_count' = reg[t] + 1
    /\ err_incs' = err_incs + 1
    /\ pc' = [pc EXCEPT ![t] = "gr_133"]
    /\ reg' = [reg EXCEPT ![t] = 0]
    /\ UNCHANGED <<azure_client, openai_client, request_count, route, data,
                   messages, caller, attempts, response, raised, i, results,
                   http, remaining, invoked, returned, both_failed, at_receive,
                   at_entry, calls, resolver>>

\* Where the OpenAI block goes after the call.
OpenAINext(outcome) ==
    IF outcome = "ok" THEN "return"
    ELSE IF Caught(outcome) THEN "gr_155_load"
    ELSE "raise"

\* lines 133-154: the standard OpenAI attempt
GrOpenAI(t) ==
    /\ pc[t] = "gr_133"
    /\ IF openai_client
       THEN \E outcome \in Outcomes :
              LET log == Append(attempts[t],
                                [provider |-> "openai", outcome |-> outcome])
                  next == OpenAINext(outcome)
              IN  /\ attempts' = [attempts EXCEPT ![t] = log]
                  /\ IF next = "return"
                     THEN GrReturn(t, SuccessResult("openai"), NoException, log)
                     ELSE IF next = "raise"
                     THEN GrReturn(t, NoResult, outcome, log)
                     ELSE /\ pc' = [pc EXCEPT ![t] = next]
                          /\ UNCHANGED <<response, raised, returned, both_failed>>
       ELSE /\ pc' = [pc EXCEPT ![t] = "gr_158_load"]
            /\ UNCHANGED <<attempts, response, raised, returned, both_failed>>
    /\ UNCHANGED <<globals, route, data, messages, caller, reg, i, results, http,
                   remaining, invoked, err_incs, at_receive, at_entry, calls, resolver>>

\* line 155, the read
GrOpenAIErrorLoad(t) ==
    /\ pc[t] = "gr_155_load"
    /\ reg' = [reg EXCEPT ![t] = error_count]
    /\ pc' = [pc EXCEPT ![t] = "gr_155_store"]
    /\ UNCHANGED <<globals, route, data, messages, caller, attempts, response,
                   raised, i, results, http, history, resolver>>

\* Faulty variant of GrOpenAIErrorStore: the failure is not counted.
GrOpenAIErrorStoreUncounted(t) ==
    /\ pc[t] = "gr_155_store"
    /\ reg' = [reg EXCEPT ![t] = 0]
    /\ pc' = [pc EXCEPT ![t] = "gr_158_load"]
    /\ UNCHANGED <<globals, route, data, messages, caller, attempts, response,
                   raised, i, results, http, history, resolver>>

\* line 155, the write
GrOpenAIErrorStore(t) ==
    /\ pc[t] = "gr_155_store"
    /\ error_count' = reg[t] + 1
    /\ err_incs' = err_incs + 1
    /\ pc' = [pc EXCEPT ![t] = "gr_158_load"]
    /\ reg' = [reg EXCEPT ![t] = 0]
    /\ UNCHANGED <<azure_client, openai_client, request_count, route, data,
                   messages, caller, attempts, response, raised, i, results,
                   http, remaining, invoked, returned, both_failed, at_receive,
                   at_entry, calls, resolver>>

\* line 158, the read
GrNoneErrorLoad(t) ==
    /\ pc[t] = "gr_158_load"
    /\ reg' = [reg EXCEPT ![t] = error_count]
    /\ pc' = [pc EXCEPT ![t] = "gr_158_store"]
    /\ UNCHANGED <<globals, route, data, messages, caller, attempts, response,
                   raised, i, results, http, history, resolver>>

\* Faulty variant of GrNoneErrorStore: the failure is not counted.
GrNoneErrorStoreUncounted(t) ==
    /\ pc[t] = "gr_158_store"
    /\ reg' = [reg EXCEPT ![t] = 0]
    /\ GrReturn(t, UnavailableResult, NoException, attempts[t])
    /\ UNCHANGED <<globals, route, data, messages, caller, attempts, i, results,
                   http, remaining, invoked, err_incs, at_receive, at_entry,
                   calls, resolver>>

\* line 158, the write, and the return of lines 159-164
GrNoneErrorStore(t) ==
    /\ pc[t] = "gr_158_store"
    /\ error_count' = reg[t] + 1
    /\ err_incs' = err_incs + 1
    /\ GrReturn(t, UnavailableResult, NoException, attempts[t])
    /\ reg' = [reg EXCEPT ![t] = 0]
    /\ UNCHANGED <<azure_client, openai_client, request_count, route, data,
                   messages, caller, attempts, i, results, http, remaining,
                   invoked, at_receive, at_entry, calls, resolver>>

(***************************************************************************)
(* test_endpoints.                                                         *)
(***************************************************************************)
\* One turn of the loop of lines 412-433, up to a call of generate_response;
\* after the last query, the return of lines 441-445.
TestEndpoints(t) ==
    /\ pc[t] = "test_endpoints"
    /\ IF i[t] > Len(test_queries)
       THEN /\ Respond(t, 200,
                  [test_results |-> results[t], total_tests |-> Len(test_queries),
                   passed |-> Cardinality({k \in 1..Len(results[t]) :
                                             results[t][k].status = "success"})])
            /\ UNCHANGED <<i, results, messages, caller, attempts, response,
                           raised, invoked, calls, at_entry>>
       ELSE LET query == test_queries[i[t]]
                quick_answer == get_quick_answer(query)
            IN  IF Truthy(quick_answer)
                THEN /\ results' = [results EXCEPT ![t] = Append(@,
                            [provider |-> "knowledge_base", status |-> "success"])]
                     /\ i' = [i EXCEPT ![t] = @ + 1]
                     /\ UNCHANGED <<pc, http, messages, caller, attempts, response,
                                    raised, invoked, calls, at_entry>>
                ELSE /\ CallChain(t, "test_endpoints", query)
                     /\ UNCHANGED <<i, results, http>>
    /\ UNCHANGED <<globals, route, data, reg, remaining, returned, both_failed,
                   err_incs, at_receive, resolver>>

\* lines 427-439: the result of the call, or the handler of line 434
TestEndpointsResult(t) ==
    /\ pc[t] = "test_endpoints_428"
    /\ results' = [results EXCEPT ![t] = Append(@,
          IF raised[t] # NoException
          THEN [provider |-> Absent, status |-> "failed"]
          ELSE [provider |-> response[t].provider,
                status |-> IF response[t].error = Absent THEN "success" ELSE "failed"])]
    /\ i' = [i EXCEPT ![t] = @ + 1]
    /\ pc' = [pc EXCEPT ![t] = "test_endpoints"]
    /\ UNCHANGED <<globals, route, data, messages, caller, reg, attempts, response,
                   raised, http, history, resolver>>

\* The host sends the response; the handler's frame is gone and the worker is
\* free again.
Deliver(t) ==
    /\ pc[t] = "done"
    /\ pc' = [pc EXCEPT ![t] = "idle"]
    /\ route' = [route EXCEPT ![t] = Absent]
    /\ data' = [data EXCEPT ![t] = NoBody]
    /\ messages' = [messages EXCEPT ![t] = <<>>]
    /\ caller' = [caller EXCEPT ![t] = Absent]
    /\ attempts' = [attempts EXCEPT ![t] = <<>>]
    /\ response' = [response EXCEPT ![t] = NoResult]
    /\ raised' = [raised EXCEPT ![t] = NoException]
    /\ i' = [i EXCEPT ![t] = 0]
    /\ results' = [results EXCEPT ![t] = <<>>]
    /\ http' = [http EXCEPT ![t] = NoResponse]
    /\ at_receive' = [at_receive EXCEPT ![t] = [rc |-> 0, ec |-> 0]]
    /\ at_entry' = [at_entry EXCEPT ![t] = [rc |-> 0, ec |-> 0]]
    /\ calls' = [calls EXCEPT ![t] = 0]
    /\ UNCHANGED <<globals, reg, remaining, invoked, returned, both_failed,
                   err_incs, resolver>>

Handler(t) ==
    \/ Receive(t)
    \/ ApiQuery(t)
    \/ ApiQueryReturn(t)
    \/ GrRequestCountLoad(t)
    \/ GrRequestCountStore(t)
    \/ GrAzure(t)
    \/ GrAzureErrorLoad(t)
    \/ GrAzureErrorStore(t)
    \/ GrOpenAI(t)
    \/ GrOpenAIErrorLoad(t)
    \/ GrOpenAIErrorStore(t)
    \/ GrNoneErrorLoad(t)
    \/ GrNoneErrorStore(t)
    \/ TestEndpoints(t)
    \/ TestEndpointsResult(t)
    \/ Deliver(t)

\* Requests served one at a time.
Next ==
    \E t \in SingleWorker : Handler(t)

Spec ==
    Init /\ [][Next]_vars

\* Requests served by NumThreads workers at once.
NextConc ==
    \E t \in Workers : Handler(t)

InitConc ==
    /\ InitService
    /\ remaining = MaxConcRequests
    /\ rquery = <<>>
    /\ ranswer = <<>>
    /\ rdone = FALSE

SpecConc ==
    InitConc /\ [][NextConc]_vars

(***************************************************************************)
(* get_quick_answer on its own: queries are concatenations of at most      *)
(* MaxPieces fragments, so that keywords occur whole, split across         *)
(* fragments, in either case, and not at all.                              *)
(***************************************************************************)
P_HardiePlank ==
    <<"H", "a", "r", "d", "i", "e", "P", "l", "a", "n", "k">>
P_HARDIETRIM ==
    <<"H", "A", "R", "D", "I", "E", "T", "R", "I", "M">>
P_Install ==
    <<"I", "n", "s", "t", "a", "l", "l">>
P_ation ==
    <<"a", "t", "i", "o", "n">>
P_tool ==
    <<"t", "o", "o", "l">>
P_hardie ==
    <<"h", "a", "r", "d", "i", "e">>
P_plank ==
    <<"p", "l", "a", "n", "k", " ">>
P_space ==
    <<" ">>

Pieces ==
    {P_HardiePlank, P_HARDIETRIM, P_Install, P_ation, P_tool, P_hardie, P_plank,
     P_space}

RECURSIVE QueriesOf(_)
QueriesOf(n) ==
    IF n = 0 THEN {<<>>}
    ELSE LET shorter == QueriesOf(n - 1)
         IN  shorter \cup {q \o p : q \in shorter, p \in Pieces}

InitResolve ==
    /\ InitService
    /\ remaining = 0
    /\ ~azure_client
    /\ ~openai_client
    /\ rquery \in QueriesOf(MaxPieces)
    /\ ranswer = <<>>
    /\ rdone = FALSE

Resolve ==
    /\ ~rdone
    /\ ranswer' = get_quick_answer(rquery)
    /\ rdone' = TRUE
    /\ UNCHANGED <<globals, locals, history, rquery>>

SpecResolve ==
    InitResolve /\ [][Resolve]_vars

(***************************************************************************)
(* Properties.                                                             *)
(***************************************************************************)
ChainLines ==
    {"gr_104_load", "gr_104_store", "gr_108", "gr_130_load", "gr_130_store",
     "gr_133", "gr_155_load", "gr_155_store", "gr_158_load", "gr_158_store"}

\* The worker is inside generate_response.
InChain(t) ==
    pc[t] \in ChainLines

\* generate_response has just returned to the worker's handler.
AtReturn(t) ==
    pc[t] \in {"api_query_395", "test_endpoints_428"}

NoneInChain ==
    \A t \in Workers : ~InChain(t)

ProviderTags ==
    {"azure_openai", "openai", "none"}

Succeeded(log) ==
    {k \in 1..Len(log) : log[k].outcome = "ok"}

\* C1: generate_response never raises to its caller: whatever is configured
\* and however each attempt ends, it returns a dict whose provider tag is
\* azure_openai, openai or none, and the tag is none exactly when no attempt
\* succeeded.
C1_ChainNeverRaises ==
    \A t \in Workers :
        /\ raised[t] = NoException
        /\ AtReturn(t) =>
              /\ response[t].provider \in ProviderTags
              /\ response[t].content # Absent
              /\ (response[t].provider = "none") <=> (Succeeded(attempts[t]) = {})

C1_Witness ==
    \E t \in Workers :
        /\ AtReturn(t)
        /\ azure_client /\ openai_client
        /\ Len(attempts[t]) = 2
        /\ attempts[t][1].outcome = "IndexError"
        /\ attempts[t][2].outcome = "APIConnectionError"
        /\ response[t].provider = "none"

\* Every invocation so far has ended, with both providers configured and both
\* failing in each.
OnlyFullyFailingRuns ==
    /\ azure_client /\ openai_client
    /\ NoneInChain
    /\ returned = invoked
    /\ both_failed = returned

\* C2 (as stated): after N consecutive invocations in which both providers
\* are configured and both fail, error_count, which started at 0, equals 2N.
C2_TwoPerInvocation ==
    OnlyFullyFailingRuns => error_count = 2 * returned

\* C2 (amended): after N such invocations error_count equals 3N: one for each
\* failed provider and one for the "none" result.
C2_ThreePerInvocation ==
    OnlyFullyFailingRuns => error_count = 3 * returned

C2_Witness ==
    /\ OnlyFullyFailingRuns
    /\ returned = 2
    /\ error_count = 6

\* C3: with no provider configured every invocation returns the fixed
\* unavailability message tagged none, makes no remote call and adds exactly
\* 1 to error_count, so that after N invocations error_count has grown by N.
C3_NoProviderConfigured ==
    (~azure_client /\ ~openai_client) =>
        /\ \A t \in Workers :
              /\ attempts[t] = <<>>
              /\ AtReturn(t) =>
                    /\ response[t].provider = "none"
                    /\ response[t].content =
                          "I'm temporarily unable to process your request. Please try again later."
                    /\ error_count = at_entry[t].ec + 1
        /\ NoneInChain => error_count = returned

C3_Witness ==
    /\ ~azure_client /\ ~openai_client
    /\ returned = 2
    /\ error_count = 2
    /\ \E t \in Workers : AtReturn(t) /\ response[t].provider = "none"

\* The worker has finished a /api/query request whose body holds a string query.
DoneWithQuery(t) ==
    /\ pc[t] = "done"
    /\ route[t] = "/api/query"
    /\ ~data[t].is_none
    /\ "query" \in DOMAIN data[t].obj
    /\ data[t].obj["query"].type = "str"

NonBlank(s) ==
    \E k \in 1..Len(s) : s[k] \notin Whitespace

\* C4: a /api/query request with a non-empty trimmed query is answered by
\* exactly one path.  If get_quick_answer returns an answer, the response is
\* that answer tagged knowledge_base with cached true, generate_response is
\* not called and both counters are as they were; otherwise
\* generate_response is called exactly once and its result is the response.
C4_ExactlyOnePath ==
    \A t \in Workers :
        /\ route[t] = "/api/query" => calls[t] <= 1
        /\ (DoneWithQuery(t) /\ NonBlank(data[t].obj["query"].chars)) =>
              LET answer == get_quick_answer(Strip(data[t].obj["query"].chars))
              IN  IF answer # <<>>
                  THEN /\ http[t].status = 200
                       /\ http[t].body.content = answer[1]
                       /\ http[t].body.provider = "knowledge_base"
                       /\ http[t].body.cached = TRUE
                       /\ calls[t] = 0
                       /\ attempts[t] = <<>>
                       /\ Counters = at_receive[t]
                  ELSE /\ calls[t] = 1
                       /\ http[t].status = 200
                       /\ http[t].body = response[t]
                       /\ http[t].body.provider \in ProviderTags
                       /\ request_count = at_receive[t].rc + 1

C4_Witness ==
    \E t \in Workers :
        /\ DoneWithQuery(t)
        /\ data[t].obj["query"].chars = Q_InstallPlank
        /\ http[t].body.provider = "knowledge_base"
        /\ at_receive[t].rc = 2
        /\ request_count = 2

\* The body has no query, or a query that is empty once trimmed.
MissingOrEmptyQuery(d) ==
    \/ d.is_none
    \/ DOMAIN d.obj = {}
    \/ "query" \notin DOMAIN d.obj
    \/ /\ d.obj["query"].type = "str"
       /\ ~NonBlank(d.obj["query"].chars)

\* C5: a /api/query request whose query is missing, or empty after trimming,
\* is answered 400 with both counters as they were: neither the resolver's
\* answer nor a provider is used and error_count does not count it.
C5_InvalidInputRejected ==
    \A t \in Workers :
        (pc[t] = "done" /\ route[t] = "/api/query" /\ MissingOrEmptyQuery(data[t])) =>
            /\ http[t].status = 400
            /\ http[t].body.provider = Absent
            /\ http[t].body.content = Absent
            /\ calls[t] = 0
            /\ attempts[t] = <<>>
            /\ Counters = at_receive[t]

C5_Witness ==
    \E t \in Workers :
        /\ pc[t] = "done"
        /\ route[t] = "/api/query"
        /\ "query" \in DOMAIN data[t].obj
        /\ data[t].obj["query"].chars = Q_Blank
        /\ http[t].status = 400
        /\ at_receive[t].rc = 1
        /\ at_receive[t].ec = 3

\* Invocations that have not yet executed line 104.
NotYetCounted ==
    {t \in Workers : pc[t] \in {"gr_104_load", "gr_104_store"}}

\* C6: request_count grows by exactly one per generate_response invocation,
\* at its entry, whatever the number of providers attempted and their
\* outcomes: it equals the number of invocations that have passed line 104,
\* and it never decreases.
C6_OnePerInvocation ==
    /\ [](/\ request_count = invoked - Cardinality(NotYetCounted)
          /\ \A t \in Workers : AtReturn(t) => request_count = at_entry[t].rc + 1)
    /\ [][request_count' >= request_count]_vars

C6_Witness ==
    \E t \in Workers :
        /\ AtReturn(t)
        /\ Len(attempts[t]) = 2
        /\ invoked = 3
        /\ request_count = 3

\* The answers of the knowledge base, as text.
PlankStepsText ==
    "HardiePlank installation key steps:\n1. Start with proper wall preparation and moisture barrier\n2. Install starter strip at bottom of wall\n3. Cut siding with appropriate tools (circular saw with carbide blade)\n4. Maintain 1/4\" gap at all joints and penetrations\n5. Use corrosion-resistant fasteners (stainless steel or galvanized)\n6. Pre-drill holes for nails to prevent cracking"

PlankToolsText ==
    "Tools needed for HardiePlank installation: Circular saw with carbide blade, Drill, Level, Chalk line, Safety equipment"

PlankDescriptionText ==
    "HardiePlank® lap siding is a fiber cement siding that combines the look of wood with superior durability and performance."

TrimDescriptionText ==
    "HardieTrim® boards provide clean lines and architectural detail with the durability of fiber cement."

GeneralGuidelinesText ==
    "General James Hardie installation guidelines:\n* Always follow local building codes\n* Maintain proper clearances (6\" from grade, 2\" from rooflines)\n* Use proper flashing and weather barriers\n* Prime and paint all cut edges within 60 days\n* Store materials flat and off the ground"

\* The reference table: the answer for each combination of the keywords.
ReferenceAnswer(plank, trim, install, tool) ==
    IF plank /\ install THEN <<PlankStepsText>>
    ELSE IF plank /\ tool THEN <<PlankToolsText>>
    ELSE IF plank THEN <<PlankDescriptionText>>
    ELSE IF trim THEN <<TrimDescriptionText>>
    ELSE IF install THEN <<GeneralGuidelinesText>>
    ELSE <<>>

HasKeyword(query, keyword) ==
    Contains(Lower(query), keyword)

\* C7: get_quick_answer decides by case-insensitive keyword containment, first
\* match first: hardieplank with install gives the numbered steps, hardieplank
\* with tool and no install the tool list, hardieplank alone its description,
\* otherwise hardietrim its description (even with install), otherwise
\* install the general guidelines, otherwise nothing.
C7_ResolverTable ==
    rdone =>
        ranswer = ReferenceAnswer(HasKeyword(rquery, KW_hardieplank),
                                  HasKeyword(rquery, KW_hardietrim),
                                  HasKeyword(rquery, KW_install),
                                  HasKeyword(rquery, KW_tool))

C7_Witness ==
    /\ rdone
    /\ ~HasKeyword(rquery, KW_hardieplank)
    /\ HasKeyword(rquery, KW_hardietrim)
    /\ HasKeyword(rquery, KW_install)
    /\ HasKeyword(rquery, KW_tool)
    /\ ranswer = <<TrimDescriptionText>>

\* Lines of generate_response after the Azure block.
AfterAzureBlock ==
    ChainLines \ {"gr_104_load", "gr_104_store", "gr_108"}

\* C8: in one invocation the providers are tried in a fixed order with one
\* fallback hop: Azure first when configured; OpenAI only after Azure failed
\* or was not configured, never after an Azure success; each at most once; a
\* result tagged openai implies that Azure did not succeed.
C8_FixedOrderSingleHop ==
    \A t \in Workers :
        LET log == attempts[t]
        IN  /\ Len(log) <= 2
            /\ \A k \in 1..Len(log) :
                  /\ log[k].provider = "azure_openai" => (k = 1 /\ azure_client)
                  /\ log[k].provider = "openai" =>
                        /\ openai_client
                        /\ k = 1 => ~azure_client
                        /\ k = 2 => /\ log[1].provider = "azure_openai"
                                    /\ log[1].outcome # "ok"
            /\ (azure_client /\ (pc[t] \in AfterAzureBlock \/ AtReturn(t))) =>
                  (Len(log) >= 1 /\ log[1].provider = "azure_openai")
            /\ (AtReturn(t) /\ response[t].provider = "openai") =>
                  /\ log[Len(log)] = [provider |-> "openai", outcome |-> "ok"]
                  /\ \A k \in 1..Len(log) :
                        log[k].provider = "azure_openai" => log[k].outcome # "ok"

C8_Witness ==
    \E t \in Workers :
        /\ AtReturn(t)
        /\ attempts[t] = << [provider |-> "azure_openai", outcome |-> "APIConnectionError"],
                            [provider |-> "openai", outcome |-> "ok"] >>
        /\ response[t].provider = "openai"

\* C9: one invocation adds to error_count one for each failed attempt and one
\* more when it ends with the none result; a success adds nothing.  So an
\* Azure success adds 0, an OpenAI success after an Azure failure adds 1, and
\* error_count can exceed request_count.
C9_ErrorsPerInvocation ==
    \A t \in Workers :
        AtReturn(t) =>
            error_count - at_entry[t].ec =
                Cardinality(Failed(attempts[t]))
                + (IF response[t].provider = "none" THEN 1 ELSE 0)

C9_Witness ==
    \E t \in Workers :
        /\ AtReturn(t)
        /\ response[t].provider = "openai"
        /\ Len(attempts[t]) = 2
        /\ error_count = at_entry[t].ec + 1
        /\ error_count > request_count

\* C10: counter increments are atomic under concurrent requests: once every
\* invocation has returned, request_count has grown by the number of
\* invocations and error_count by the number of error increments they made.
C10_NoLostUpdates ==
    (NoneInChain /\ returned = invoked) =>
        /\ request_count = invoked
        /\ error_count = err_incs

====
